---- MODULE Spec2Model ----
(***************************************************************************)
(* A model of clippy's command metadata (CommandMethod, CommandModule) and *)
(* of the dispatcher that maps an argument vector to a call.               *)
(*                                                                         *)
(* Three specifications share the variables:                               *)
(*   SpecCmd      one CommandMethod and the operations called on it;       *)
(*   SpecBuild    building a CommandModule from a source unit, then the    *)
(*                module-level operations;                                 *)
(*   SpecDispatch a built CommandModule dispatching one argument vector.   *)
(***************************************************************************)
EXTENDS Integers, Sequences, FiniteSets, TLC

VARIABLES
    method,     \* SpecCmd: the CommandMethod under examination
    result,     \* the value returned / printed by the last operation
    unit,       \* SpecBuild: the source unit (top-level function definitions)
    version,    \* the module's __version__ attribute, or NoValue
    registry,   \* the CommandModule (NoModule before it is built)
    argv,       \* SpecDispatch: the argument vector
    pc,         \* the dispatcher's state
    pos,        \* index of the next token of argv to consume
    command,    \* the name of the selected command, or NoValue
    args,       \* the arguments bound so far: parameter name -> value
    error,      \* the error a failed dispatch ended with (NoError if none)
    lookups,    \* number of command lookups performed by this dispatch
    invoked     \* the calls made: <<[name, received]>>

vars == <<method, result, unit, version, registry, argv, pc, pos, command,
          args, error, lookups, invoked>>

NoValue == "<none>"

NoError == [kind |-> "none", name |-> "", literal |-> ""]

(***************************************************************************)
(* Bounds                                                                  *)
(***************************************************************************)
MaxParams == 3      \* parameters of the CommandMethod of SpecCmd
MaxFuncs == 2       \* function definitions of a source unit
MaxArgv == 4        \* tokens of an argument vector

(***************************************************************************)
(* Helpers on sequences and strings                                        *)
(***************************************************************************)
Range(s) == {s[i] : i \in 1..Len(s)}

Max(S) == CHOOSE x \in S : \A y \in S : y <= x

Min2(a, b) == IF a <= b THEN a ELSE b

\* " " * n: Python yields the empty string for n <= 0
RECURSIVE Spaces(_)
Spaces(n) == IF n <= 0 THEN "" ELSE " " \o Spaces(n - 1)

RECURSIVE Concat(_)
Concat(parts) == IF parts = <<>> THEN "" ELSE Head(parts) \o Concat(Tail(parts))

StartsWith(s, prefix) ==
    /\ Len(s) >= Len(prefix)
    /\ SubSeq(s, 1, Len(prefix)) = prefix

(***************************************************************************)
(* CommandParam: name, has_default, index, annotation, details, default    *)
(***************************************************************************)
\* the annotation of a parameter: "None" (no annotation) or a type's __name__
Annotation(name) ==
    CASE name = "a" -> "None"
      [] name = "b" -> "str"
      [] name = "c" -> "int"
      [] name = "d" -> "bool"
      [] name = "verbose" -> "bool"
      [] name = "destination" -> "None"

\* the declared default of a parameter that has one
DefaultOf(name) ==
    CASE name = "a" -> "a0"
      [] name = "b" -> "b0"
      [] name = "c" -> 1
      [] name = "d" -> FALSE
      [] name = "verbose" -> FALSE
      [] name = "destination" -> "out"

CommandParam(name, has_default, index) ==
    [name |-> name, has_default |-> has_default, index |-> index,
     annotation |-> Annotation(name), details |-> "The " \o name \o "."]

\* all sequences of distinct elements of S of length n
DistinctSeqs(S, n) ==
    {s \in [1..n -> S] : \A i, j \in 1..n : i # j => s[i] # s[j]}

\* A parameter mapping (Dict[str, CommandParam]) is modelled by the sequence
\* of its values in the mapping's iteration order.  The declaration indices
\* are a permutation of 0..n-1 that need not agree with the iteration order.
ParamDocsOfSize(names, n) ==
    {[i \in 1..n |-> CommandParam(ns[i], hd[i], ix[i] - 1)] :
        ns \in DistinctSeqs(names, n),
        hd \in [1..n -> BOOLEAN],
        ix \in DistinctSeqs(1..n, n)}

ParamDocs(names, max) ==
    UNION {ParamDocsOfSize(names, n) : n \in 0..Min2(max, Cardinality(names))}

(***************************************************************************)
(* CommandMethod                                                           *)
(***************************************************************************)
NoDocumentation == "No documentation provided."

\* defn is the position of the function definition in the source unit and
\* impl that of the definition whose function object is called
CommandMethod(name, main_doc, param_doc, defn, impl) ==
    [name |-> name,
     main |-> IF main_doc = NoValue THEN NoDocumentation ELSE main_doc,
     params |-> param_doc,
     defn |-> defn,
     impl |-> impl]

\* list.sort(key=lambda x: x.index): a stable insertion sort on index
RECURSIVE InsertByIndex(_, _)
InsertByIndex(x, sorted) ==
    IF sorted = <<>> THEN <<x>>
    ELSE IF x.index < Head(sorted).index THEN <<x>> \o sorted
    ELSE <<Head(sorted)>> \o InsertByIndex(x, Tail(sorted))

RECURSIVE SortByIndex(_)
SortByIndex(s) ==
    IF s = <<>> THEN <<>>
    ELSE InsertByIndex(s[Len(s)], SortByIndex(SubSeq(s, 1, Len(s) - 1)))

NoDefault(x) == ~x.has_default

HasDefault(x) == x.has_default

required_params_unsorted(m) == SelectSeq(m.params, NoDefault)

required_params(m) == SortByIndex(SelectSeq(m.params, NoDefault))

optional_params_unfiltered(m) == SortByIndex(m.params)

optional_params(m) == SortByIndex(SelectSeq(m.params, HasDefault))

longest_param_name_length(m) ==
    IF Len(m.params) < 1 THEN 0
    ELSE Max({Len(m.params[i].name) : i \in 1..Len(m.params)})

_right_pad(string, count) == string \o Spaces(Len(string) - count)

\* the piece short_params appends for one parameter
ShortParam(param) ==
    IF param.has_default
    THEN IF param.annotation = "bool"
         THEN "[--" \o param.name \o "] "
         ELSE IF param.annotation = "None"
         THEN "[--" \o param.name \o "=<"
                  \o SubSeq(param.name, 1, Min2(2, Len(param.name))) \o ">] "
         ELSE "[--" \o param.name \o "=<" \o param.annotation \o ">] "
    ELSE "<" \o param.name \o "> "

\* the pieces in the order short_params appends them
short_params_parts(m) == [i \in 1..Len(m.params) |-> ShortParam(m.params[i])]

short_params(m) == Concat(short_params_parts(m))

\* one print() call: the format string and the arguments given to format()
Line(fmt, fargs) == [fmt |-> fmt, args |-> fargs]

PositionalHeader == "\nPositional arguments:"

OptionsHeader == "\nOptions:"

PositionalFmt == "\t{}\t{}"

OptionFmt == "\t--{}\t{}"

print_help(m, module_name) ==
    LET longest == longest_param_name_length(m)
        req == required_params(m)
        opt == optional_params(m)
    IN  <<Line(m.main, <<>>),
          Line("\nUsage:", <<>>),
          Line("\tpython -m {} {} {}", <<module_name, m.name, short_params(m)>>)>>
        \o (IF Len(m.params) > 0
            THEN <<Line(PositionalHeader, <<>>)>>
                 \o [i \in 1..Len(req) |->
                        Line(PositionalFmt,
                             <<_right_pad(req[i].name, longest), req[i].details>>)]
            ELSE <<>>)
        \o <<Line(OptionsHeader, <<>>),
             Line(OptionFmt, <<"help", "Show this screen.">>)>>
        \o [i \in 1..Len(opt) |->
               Line(OptionFmt,
                    <<_right_pad(opt[i].name, longest), opt[i].details>>)]

ParamNamesOf(m) == {m.params[i].name : i \in 1..Len(m.params)}

\* self._impl(**args): Python raises TypeError when a parameter without a
\* default is missing or a keyword names no parameter; otherwise the function
\* body runs with every absent parameter at its declared default
call(m, kwargs) ==
    IF /\ DOMAIN kwargs \subseteq ParamNamesOf(m)
       /\ \A i \in 1..Len(m.params) :
              ~m.params[i].has_default => m.params[i].name \in DOMAIN kwargs
    THEN [name |-> m.name, impl |-> m.impl, raised |-> FALSE,
          received |-> [n \in ParamNamesOf(m) |->
                           IF n \in DOMAIN kwargs THEN kwargs[n] ELSE DefaultOf(n)]]
    ELSE [name |-> m.name, impl |-> m.impl, raised |-> TRUE, received |-> <<>>]

(***************************************************************************)
(* The source unit and the CommandModule built from it                     *)
(***************************************************************************)
\* a top-level function definition: tagged when its function object is a
\* clippy command (decorated with @clippy)
FunctionDef(name, tagged, params) ==
    [name |-> name, tagged |-> tagged, doc |-> NoValue, params |-> params]

\* getattr(imported_module, name): the module binds a name to the function
\* of the last definition executed under that name
ModuleAttr(body, name) ==
    Max({i \in 1..Len(body) : body[i].name = name})

is_clippy_command(body, i) == body[i].tagged

create_command_method(body, i) ==
    CommandMethod(body[i].name, body[i].doc, body[i].params, i,
                  ModuleAttr(body, body[i].name))

\* result[key] = val on a dict kept as the sequence of its values in
\* insertion order: an existing key keeps its place and gets the new value
DictSet(d, val) ==
    IF \E i \in 1..Len(d) : d[i].name = val.name
    THEN [i \in 1..Len(d) |-> IF d[i].name = val.name THEN val ELSE d[i]]
    ELSE Append(d, val)

RegisterUntagged(body, i) == TRUE

Registers(body, i) == is_clippy_command(body, ModuleAttr(body, body[i].name))

RECURSIVE CommandListUpTo(_, _)
CommandListUpTo(body, n) ==
    IF n = 0 THEN <<>>
    ELSE LET before == CommandListUpTo(body, n - 1)
         IN  IF Registers(body, n)
             THEN DictSet(before, create_command_method(body, n))
             ELSE before

_get_command_list(body) == CommandListUpTo(body, Len(body))

\* bool(version): None and the empty string are falsy
Truthy(v) == v # NoValue /\ v # ""

HasVersionIfNotNone(v) == v # NoValue

HasVersion(v) == Truthy(v)

NoVersion == "No version provided."

CommandModule(name, documentation, v, command_list) ==
    [name |-> name,
     documentation |-> IF documentation = NoValue THEN NoDocumentation
                       ELSE documentation,
     has_version |-> HasVersion(v),
     version |-> IF Truthy(v) THEN v ELSE NoVersion,
     commands |-> command_list]

create_command_module(name, body, v) ==
    CommandModule(name, NoValue, v, _get_command_list(body))

ReservedLength(module) ==
    IF module.has_version THEN Len("--version") ELSE Len("--help")

module_longest_params_only(module) ==
    IF module.commands = <<>> THEN ReservedLength(module)
    ELSE Max({longest_param_name_length(module.commands[i]) :
                 i \in 1..Len(module.commands)})

module_longest_param_name_length(module) ==
    IF module.commands = <<>> THEN ReservedLength(module)
    ELSE Max({longest_param_name_length(module.commands[i]) :
                 i \in 1..Len(module.commands)} \cup {ReservedLength(module)})

\* common.right_pad: the string followed by spaces up to the given width
right_pad(string, width) == string \o Spaces(width - Len(string))

RECURSIVE Flatten(_)
Flatten(ss) == IF ss = <<>> THEN <<>> ELSE Head(ss) \o Flatten(Tail(ss))

\* CommandModule.help(): the pieces appended to the result, in order
help(module) ==
    LET cmds == module.commands
        longest == module_longest_param_name_length(module)
    IN  <<Line("{}\n\nUsage:", <<module.documentation>>)>>
        \o [i \in 1..Len(cmds) |->
               Line("\n\tpython -m {} {} {}",
                    <<module.name, cmds[i].name, short_params(cmds[i])>>)]
        \o <<Line("\n\tpython -m {} --help", <<module.name>>)>>
        \o (IF module.has_version
            THEN <<Line("\n\tpython -m {} --version", <<module.name>>)>>
            ELSE <<>>)
        \o <<Line("\n\nOptions:\n\t--{} {}",
                  <<right_pad("help", longest), "Show this screen.">>)>>
        \o (IF module.has_version
            THEN <<Line("\n\t--{} {}",
                        <<right_pad("version", longest), "Show version information.">>)>>
            ELSE <<>>)
        \o Flatten([i \in 1..Len(cmds) |->
               LET opt == optional_params(cmds[i])
               IN  [j \in 1..Len(opt) |->
                       Line("\n\t--{} {}",
                            <<right_pad(opt[j].name, longest), opt[j].details>>)]])

Versions == {NoValue, "", "0.0.1"}

NoMethod == CommandMethod("", NoValue, <<>>, 0, 0)

NoModule == CommandModule("", NoValue, NoValue, <<>>)

(***************************************************************************)
(* SpecCmd: one CommandMethod, and the operations called on it             *)
(***************************************************************************)
CmdParamNames == {"a", "c", "verbose", "destination"}

ModuleName == "tool"

Idle == [op |-> "none", val |-> <<>>]

InitCmd ==
    /\ method \in {CommandMethod("f", NoValue, pd, 1, 1) :
                       pd \in ParamDocs(CmdParamNames, MaxParams)}
    /\ result = Idle
    /\ unit = <<>>
    /\ version = NoValue
    /\ registry = NoModule
    /\ argv = <<>>
    /\ pc = "NoDispatch"
    /\ pos = 1
    /\ command = NoValue
    /\ args = <<>>
    /\ error = NoError
    /\ lookups = 0
    /\ invoked = <<>>

Return(op, val) ==
    /\ result' = [op |-> op, val |-> val]
    /\ UNCHANGED <<method, unit, version, registry, argv, pc, pos, command,
                   args, error, lookups, invoked>>

CallRequiredParams == Return("required_params", required_params(method))

CallOptionalParams == Return("optional_params", optional_params(method))

CallLongest == Return("longest", <<longest_param_name_length(method)>>)

CallShortParams == Return("short_params", <<short_params(method)>>)

CallPrintHelp == Return("print_help", print_help(method, ModuleName))

NextCmd ==
    \/ CallRequiredParams
    \/ CallOptionalParams
    \/ CallLongest
    \/ CallShortParams
    \/ CallPrintHelp

SpecCmd == InitCmd /\ [][NextCmd]_vars

(***************************************************************************)
(* SpecBuild: a CommandModule is built from a source unit, then asked for  *)
(* its longest parameter name length and its help                          *)
(***************************************************************************)
FuncNames == {"f", "g"}

\* the parameter mappings of the functions of a source unit
BuildParamDocs ==
    {<<>>,
     <<CommandParam("a", FALSE, 0)>>,
     <<CommandParam("verbose", TRUE, 0)>>,
     <<CommandParam("destination", TRUE, 1), CommandParam("a", FALSE, 0)>>}

BuildFunctionDefs ==
    {FunctionDef(n, t, pd) : n \in FuncNames, t \in BOOLEAN, pd \in BuildParamDocs}

SourceUnits == UNION {[1..n -> BuildFunctionDefs] : n \in 0..MaxFuncs}

InitBuild ==
    /\ unit \in SourceUnits
    /\ version \in Versions
    /\ registry = NoModule
    /\ method = NoMethod
    /\ result = Idle
    /\ argv = <<>>
    /\ pc = "Construct"
    /\ pos = 1
    /\ command = NoValue
    /\ args = <<>>
    /\ error = NoError
    /\ lookups = 0
    /\ invoked = <<>>

CreateCommandModule ==
    /\ pc = "Construct"
    /\ registry' = create_command_module(ModuleName, unit, version)
    /\ pc' = "Constructed"
    /\ UNCHANGED <<method, result, unit, version, argv, pos, command,
                   args, error, lookups, invoked>>

CallModuleLongest ==
    /\ pc = "Constructed"
    /\ Return("module_longest", <<module_longest_param_name_length(registry)>>)

CallModuleHelp ==
    /\ pc = "Constructed"
    /\ Return("module_help", help(registry))

NextBuild ==
    \/ CreateCommandModule
    \/ CallModuleLongest
    \/ CallModuleHelp

SpecBuild == InitBuild /\ [][NextBuild]_vars

(***************************************************************************)
(* The dispatcher: SelectModuleAction, SelectCommand, BindArguments, and   *)
(* the terminal states Invoke, EmitHelp, PrintVersion and Fail             *)
(***************************************************************************)
Digits == "0123456789"

UpperCase == "ABCDEFGHIJKLMNOPQRSTUVWXYZ"

LowerCase == "abcdefghijklmnopqrstuvwxyz"

\* the offset of the first occurrence of sub in s, or 0 when there is none
Find(s, sub) ==
    LET hits == {i \in 1..(Len(s) - Len(sub) + 1) :
                    SubSeq(s, i, i + Len(sub) - 1) = sub}
    IN  IF hits = {} THEN 0 ELSE CHOOSE i \in hits : \A j \in hits : i <= j

RECURSIVE ToLower(_)
ToLower(s) ==
    IF s = "" THEN ""
    ELSE LET ch == SubSeq(s, 1, 1)
             at == Find(UpperCase, ch)
         IN  (IF at = 0 THEN ch ELSE SubSeq(LowerCase, at, at))
                 \o ToLower(SubSeq(s, 2, Len(s)))

IsDecimal(s) ==
    /\ s # ""
    /\ \A i \in 1..Len(s) : Find(Digits, SubSeq(s, i, i)) > 0

RECURSIVE ParseDecimal(_)
ParseDecimal(s) ==
    IF s = "" THEN 0
    ELSE 10 * ParseDecimal(SubSeq(s, 1, Len(s) - 1))
             + (Find(Digits, SubSeq(s, Len(s), Len(s))) - 1)

\* a literal coerced to a parameter's declared type: [ok, val]
Coerce(annotation, literal) ==
    CASE annotation = "int" ->
             IF IsDecimal(literal)
             THEN [ok |-> TRUE, val |-> ParseDecimal(literal)]
             ELSE [ok |-> FALSE, val |-> 0]
      [] annotation = "bool" ->
             IF ToLower(literal) \in {"true", "1", "yes"}
             THEN [ok |-> TRUE, val |-> TRUE]
             ELSE IF ToLower(literal) \in {"false", "0", "no"}
             THEN [ok |-> TRUE, val |-> FALSE]
             ELSE [ok |-> FALSE, val |-> FALSE]
      [] OTHER -> [ok |-> TRUE, val |-> literal]

IsOption(token) == StartsWith(token, "--")

OptionName(token) ==
    LET eq == Find(token, "=")
    IN  IF eq = 0 THEN SubSeq(token, 3, Len(token)) ELSE SubSeq(token, 3, eq - 1)

OptionHasValue(token) == Find(token, "=") > 0

OptionValue(token) == SubSeq(token, Find(token, "=") + 1, Len(token))

\* CommandRegistry.lookup(name): the position of the command, or 0
lookup(module, name) ==
    LET hits == {i \in 1..Len(module.commands) : module.commands[i].name = name}
    IN  IF hits = {} THEN 0 ELSE CHOOSE i \in hits : TRUE

CommandOf(module, name) == module.commands[lookup(module, name)]

ParamOf(m, name) == CHOOSE p \in Range(m.params) : p.name = name

\* the required parameters not bound yet, in the order required_params gives
Unfilled(m, bound) ==
    LET NotBound(p) == p.name \notin DOMAIN bound
    IN  SelectSeq(required_params(m), NotBound)

Fail(kind, name, literal) ==
    /\ pc' = "Fail"
    /\ error' = [kind |-> kind, name |-> name, literal |-> literal]

HelpOnlyWhenAlone(module, tokens) == tokens = <<>> \/ tokens = <<"--help">>

WantsModuleHelp(module, tokens) == tokens = <<>> \/ tokens[1] = "--help"

WantsVersion(module, tokens) ==
    tokens # <<>> /\ tokens[1] = "--version" /\ module.has_version

SelectModuleAction ==
    /\ pc = "SelectModuleAction"
    /\ IF WantsModuleHelp(registry, argv)
       THEN /\ pc' = "EmitHelp"
            /\ result' = [op |-> "module_help", val |-> help(registry)]
       ELSE IF WantsVersion(registry, argv)
       THEN /\ pc' = "PrintVersion"
            /\ result' = [op |-> "version", val |-> <<registry.version>>]
       ELSE /\ pc' = "SelectCommand"
            /\ UNCHANGED result
    /\ UNCHANGED <<method, unit, version, registry, argv, pos, command, args,
                   error, lookups, invoked>>

SelectCommand ==
    /\ pc = "SelectCommand"
    /\ lookups' = lookups + 1
    /\ IF lookup(registry, argv[1]) # 0
       THEN /\ pc' = "BindArguments"
            /\ command' = argv[1]
            /\ pos' = 2
            /\ UNCHANGED error
       ELSE /\ Fail("UnknownCommand", argv[1], "")
            /\ UNCHANGED <<command, pos>>
    /\ UNCHANGED <<method, result, unit, version, registry, argv, args, invoked>>

\* the outcomes of a token whose handling is left open: it is skipped, or the
\* dispatch fails
Unspecified(token) ==
    \/ /\ pos' = pos + 1
       /\ UNCHANGED <<pc, error>>
    \/ /\ Fail("UnexpectedArgument", token, "")
       /\ UNCHANGED pos

Bind(name, val) ==
    /\ args' = (name :> val) @@ args
    /\ pos' = pos + 1
    /\ UNCHANGED <<pc, error, result>>

\* consumes the token at pos
BindToken ==
    /\ pc = "BindArguments"
    /\ pos <= Len(argv)
    /\ LET token == argv[pos]
           m == CommandOf(registry, command)
       IN  IF token = "--help"
           THEN /\ pc' = "EmitHelp"
                /\ result' = [op |-> "print_help", val |-> print_help(m, registry.name)]
                /\ UNCHANGED <<pos, args, error>>
           ELSE IF IsOption(token)
           THEN IF OptionName(token) \notin ParamNamesOf(m)
                THEN Unspecified(token) /\ UNCHANGED <<args, result>>
                ELSE LET p == ParamOf(m, OptionName(token))
                     IN  IF OptionHasValue(token)
                         THEN LET c == Coerce(p.annotation, OptionValue(token))
                              IN  IF c.ok
                                  THEN Bind(p.name, c.val)
                                  ELSE /\ Fail("TypeCoercionError", p.name,
                                               OptionValue(token))
                                       /\ UNCHANGED <<pos, args, result>>
                         ELSE IF p.annotation = "bool"
                         THEN Bind(p.name, TRUE)
                         ELSE Unspecified(token) /\ UNCHANGED <<args, result>>
           ELSE LET unfilled == Unfilled(m, args)
                IN  IF unfilled # <<>>
                    THEN Bind(unfilled[1].name, token)
                    ELSE Unspecified(token) /\ UNCHANGED <<args, result>>
    /\ UNCHANGED <<method, unit, version, registry, argv, command, lookups, invoked>>

\* every token is consumed: each required parameter must be bound
FinishBind ==
    /\ pc = "BindArguments"
    /\ pos > Len(argv)
    /\ LET unfilled == Unfilled(CommandOf(registry, command), args)
       IN  IF unfilled # <<>>
           THEN Fail("MissingRequiredArgument", unfilled[1].name, "")
           ELSE pc' = "Invoke" /\ UNCHANGED error
    /\ UNCHANGED <<method, result, unit, version, registry, argv, pos, command,
                   args, lookups, invoked>>

Invoke ==
    /\ pc = "Invoke"
    /\ invoked' = Append(invoked, call(CommandOf(registry, command), args))
    /\ pc' = "Done"
    /\ UNCHANGED <<method, result, unit, version, registry, argv, pos, command,
                   args, error, lookups>>

(***************************************************************************)
(* SpecDispatch: a built CommandModule dispatches one argument vector      *)
(***************************************************************************)
\* f(a, b, c=1, d=False); the mapping iterates in another order
ExampleParams ==
    <<CommandParam("d", TRUE, 3), CommandParam("b", FALSE, 1),
      CommandParam("c", TRUE, 2), CommandParam("a", FALSE, 0)>>

DispatchUnits ==
    {<<>>,
     <<FunctionDef("f", TRUE, ExampleParams)>>,
     <<FunctionDef("f", TRUE, ExampleParams), FunctionDef("frobnicate", FALSE, <<>>)>>}

Tokens ==
    {"--help", "--version", "f", "frobnicate", "v1", "v2", "--c=5", "--d",
     "--d=maybe"}

ArgumentVectors == UNION {[1..n -> Tokens] : n \in 0..MaxArgv}

InitDispatch ==
    /\ unit \in DispatchUnits
    /\ version \in Versions
    /\ registry = create_command_module(ModuleName, unit, version)
    /\ argv \in ArgumentVectors
    /\ pc = "SelectModuleAction"
    /\ method = NoMethod
    /\ result = Idle
    /\ pos = 1
    /\ command = NoValue
    /\ args = <<>>
    /\ error = NoError
    /\ lookups = 0
    /\ invoked = <<>>

NextDispatch ==
    \/ SelectModuleAction
    \/ SelectCommand
    \/ BindToken
    \/ FinishBind
    \/ Invoke

SpecDispatch == InitDispatch /\ [][NextDispatch]_vars

(***************************************************************************)
(* Properties of SpecCmd                                                   *)
(***************************************************************************)
WithoutDefault(m) == {p \in Range(m.params) : ~p.has_default}

WithDefault(m) == {p \in Range(m.params) : p.has_default}

AscendingIndex(s) == \A i, j \in 1..Len(s) : i < j => s[i].index < s[j].index

\* s lists exactly the elements of S, each once, by ascending declaration index
ExactlyInDeclarationOrder(s, S) ==
    /\ Range(s) = S
    /\ Len(s) = Cardinality(S)
    /\ AscendingIndex(s)

\* C1: required_params() returns exactly the N parameters without a default
\* and optional_params() exactly the M parameters with one, each by ascending
\* declaration index whatever the mapping's iteration order; the two results
\* are disjoint and together cover every parameter.
C1_RequiredOptionalPartition ==
    /\ result.op = "required_params" =>
           ExactlyInDeclarationOrder(result.val, WithoutDefault(method))
    /\ result.op = "optional_params" =>
           ExactlyInDeclarationOrder(result.val, WithDefault(method))
    /\ result.op \in {"required_params", "optional_params"} =>
           LET R == Range(required_params(method))
               O == Range(optional_params(method))
           IN  /\ R \cap O = {}
               /\ R \cup O = Range(method.params)
               /\ Cardinality(R) + Cardinality(O) = Len(method.params)

\* the mapping iterates in an order other than the declaration order
IterationOrderDiffers(m) ==
    \E i, j \in 1..Len(m.params) :
        i < j /\ m.params[i].index > m.params[j].index

C1_Witness ==
    /\ result.op = "required_params"
    /\ Len(result.val) = 2
    /\ WithDefault(method) # {}
    /\ result.val # SelectSeq(method.params, NoDefault)
    /\ IterationOrderDiffers(method)

\* where parameter p is rendered in a usage summary: `<name>` when required,
\* `[--name]` or `[--name=...]` when optional
OffsetOf(summary, p) ==
    IF p.has_default
    THEN Max({Find(summary, "[--" \o p.name \o "]"),
              Find(summary, "[--" \o p.name \o "=")})
    ELSE Find(summary, "<" \o p.name \o ">")

\* C8: in the string short_params() builds, every required parameter appears
\* before every optional one, and within each group the parameters appear by
\* ascending declaration index, whatever the mapping's iteration order.
C8_RequiredBeforeOptional ==
    result.op = "short_params" =>
        LET summary == result.val[1]
        IN  \A p, q \in Range(method.params) :
                /\ OffsetOf(summary, p) > 0
                /\ (~p.has_default /\ q.has_default) =>
                       OffsetOf(summary, p) < OffsetOf(summary, q)
                /\ (p.has_default = q.has_default /\ p.index < q.index) =>
                       OffsetOf(summary, p) < OffsetOf(summary, q)

\* the indices of the lines of a help text printed with the given format
LinesWith(text, fmt) == {i \in 1..Len(text) : text[i].fmt = fmt}

\* C9: print_help() emits the `Positional arguments:` block if and only if
\* the command has a required parameter, and always emits an `Options:`
\* block whose first entry is `--help`, followed by exactly the optional
\* parameters in declaration order.
C9_PositionalIffRequired ==
    result.op = "print_help" =>
        LET text == result.val
            opts == LinesWith(text, OptionsHeader)
        IN  /\ (LinesWith(text, PositionalHeader) # {}) <=>
                   (WithoutDefault(method) # {})
            /\ Cardinality(opts) = 1
            /\ LET k == CHOOSE i \in opts : TRUE
                   entries == SubSeq(text, k + 2, Len(text))
               IN  /\ Len(text) > k
                   /\ text[k + 1] = Line(OptionFmt, <<"help", "Show this screen.">>)
                   /\ Len(entries) = Cardinality(WithDefault(method))
                   /\ \A i \in 1..Len(entries) :
                          \E p \in WithDefault(method) :
                              /\ entries[i].fmt = OptionFmt
                              /\ StartsWith(entries[i].args[1], p.name)
                              /\ Cardinality({q \in WithDefault(method) :
                                                 q.index < p.index}) = i - 1

\* C10: in the text of a command every parameter name of the `Positional
\* arguments:` and `Options:` blocks is padded to at least the longest
\* parameter name's length, and begins with the unpadded name.
C10_PaddedToLongest ==
    result.op = "print_help" =>
        LET text == result.val
            L == longest_param_name_length(method)
        IN  \A i \in LinesWith(text, PositionalFmt) \cup LinesWith(text, OptionFmt) :
                text[i].args[1] # "help" =>
                    \E p \in Range(method.params) :
                        /\ StartsWith(text[i].args[1], p.name)
                        /\ Len(text[i].args[1]) >= L

(***************************************************************************)
(* Properties of SpecBuild                                                 *)
(***************************************************************************)
\* the function definitions eligible as commands: those whose name the
\* module binds to a function tagged as a command
EligibleDefs(body) ==
    {i \in 1..Len(body) :
        \E j \in 1..Len(body) :
            /\ body[j].name = body[i].name
            /\ \A k \in (j + 1)..Len(body) : body[k].name # body[i].name
            /\ body[j].tagged}

\* C6: a source unit in which two eligible functions share a name is
\* rejected at construction, so a constructed registry never comes from such
\* a unit and holds as many commands as the unit has eligible functions.
C6_DuplicateNamesRejected ==
    pc = "Constructed" =>
        /\ \A i, j \in EligibleDefs(unit) : i # j => unit[i].name # unit[j].name
        /\ Len(registry.commands) = Cardinality(EligibleDefs(unit))

ParamNameLengths(module) ==
    {Len(p.name) : p \in UNION {Range(module.commands[i].params) :
                                    i \in 1..Len(module.commands)}}

VersionSupplied == version # NoValue /\ version # ""

Selected == CommandOf(registry, command)

\* the tokens consumed by BindArguments so far
Consumed == SubSeq(argv, 2, pos - 1)

IsBare(token) == ~StartsWith(token, "--")

BareConsumed == SelectSeq(Consumed, IsBare)

\* the rank of a required parameter among the required ones, by declaration
RequiredRank(m, p) ==
    Cardinality({q \in WithoutDefault(m) : q.index < p.index}) + 1

ExplicitlyGiven(name) ==
    \E i \in 1..Len(Consumed) :
        Consumed[i] = "--" \o name \/ StartsWith(Consumed[i], "--" \o name \o "=")

\* C2: bare tokens bind left to right to the next unfilled required
\* parameter; the dispatcher invokes only with every required parameter
\* bound, and otherwise fails with MissingRequiredArgument naming the first
\* unfilled required parameter in declaration order, calling nothing; an
\* optional parameter without an explicit token is passed its default.
C2_BindThenInvokeOrFail ==
    /\ (pc \in {"BindArguments", "Invoke", "Done"} \/
        (pc = "Fail" /\ error.kind = "MissingRequiredArgument")) =>
           \A p \in WithoutDefault(Selected) :
               LET r == RequiredRank(Selected, p)
               IN  /\ r <= Len(BareConsumed) =>
                          /\ p.name \in DOMAIN args
                          /\ args[p.name] = BareConsumed[r]
                   /\ r > Len(BareConsumed) => p.name \notin DOMAIN args
    /\ pc \in {"Invoke", "Done"} =>
           /\ pos > Len(argv)
           /\ \A p \in WithoutDefault(Selected) : p.name \in DOMAIN args
    /\ pc = "Fail" => invoked = <<>>
    /\ (pc = "Fail" /\ error.kind = "MissingRequiredArgument") =>
           /\ pos > Len(argv)
           /\ \E p \in WithoutDefault(Selected) :
                  /\ error.name = p.name
                  /\ p.name \notin DOMAIN args
                  /\ \A q \in WithoutDefault(Selected) :
                         q.name \notin DOMAIN args => p.index <= q.index
    /\ pc = "Done" =>
           /\ Len(invoked) = 1
           /\ invoked[1].name = command
           /\ ~invoked[1].raised
           /\ DOMAIN invoked[1].received = ParamNamesOf(Selected)
           /\ \A p \in WithoutDefault(Selected) :
                  invoked[1].received[p.name] = args[p.name]
           /\ \A p \in WithDefault(Selected) :
                  ~ExplicitlyGiven(p.name) =>
                      invoked[1].received[p.name] = DefaultOf(p.name)
    /\ (argv = <<"f", "v1", "v2", "--c=5">> /\ pc = "Done") =>
           /\ invoked[1].received["a"] = "v1"
           /\ invoked[1].received["b"] = "v2"
           /\ invoked[1].received["c"] = 5
           /\ invoked[1].received["d"] = FALSE
    /\ (argv = <<"f", "v1", "--c=5">> /\ command = "f" /\ pc # "BindArguments") =>
           /\ pc = "Fail"
           /\ error = [kind |-> "MissingRequiredArgument", name |-> "b", literal |-> ""]

C2_Witness ==
    /\ pc = "Done"
    /\ argv = <<"f", "v1", "v2", "--c=5">>
    /\ Len(invoked) = 1

\* C3: when the argument vector is empty or starts with `--help`, the
\* dispatcher goes from SelectModuleAction to EmitHelp with the module's
\* help: it never selects a command, binds arguments, looks a command up or
\* calls a command function, whatever tokens follow.
C3_HelpShortCircuits ==
    (argv = <<>> \/ argv[1] = "--help") =>
        /\ pc \in {"SelectModuleAction", "EmitHelp"}
        /\ pc = "EmitHelp" => result.op = "module_help"
        /\ lookups = 0
        /\ command = NoValue
        /\ invoked = <<>>

C3_Witness ==
    /\ pc = "EmitHelp"
    /\ Len(argv) = 3
    /\ argv[1] = "--help"
    /\ argv[2] = "f"
    /\ registry.commands # <<>>

\* the names under which the source unit's eligible functions are registered
EligibleNames == {unit[i].name : i \in EligibleDefs(unit)}

HonouredVersion == argv[1] = "--version" /\ VersionSupplied

\* C4: a first token that is not `--help`, not an honoured `--version` and
\* not the name of a registered command ends the dispatch in Fail with
\* UnknownCommand naming that token, and no command function is called.
C4_UnknownCommandFails ==
    (/\ argv # <<>>
     /\ argv[1] # "--help"
     /\ ~HonouredVersion
     /\ argv[1] \notin EligibleNames) =>
        /\ pc \in {"SelectModuleAction", "SelectCommand", "Fail"}
        /\ pc = "Fail" =>
               error = [kind |-> "UnknownCommand", name |-> argv[1], literal |-> ""]
        /\ command = NoValue
        /\ invoked = <<>>

C4_Witness ==
    /\ pc = "Fail"
    /\ argv[1] = "frobnicate"
    /\ Len(argv) > 1
    /\ Len(unit) = 2
    /\ error.kind = "UnknownCommand"

\* C5: with `--version` first, a registry built with a non-empty version
\* string (exactly then has_version holds) prints that string and ends
\* successfully without calling a command; a registry without one hands the
\* token to SelectCommand, which fails with UnknownCommand, and prints no
\* placeholder.
C5_VersionOrUnknown ==
    (argv # <<>> /\ argv[1] = "--version") =>
        /\ registry.has_version <=> VersionSupplied
        /\ invoked = <<>>
        /\ IF VersionSupplied
           THEN /\ pc \in {"SelectModuleAction", "PrintVersion"}
                /\ pc = "PrintVersion" =>
                       result = [op |-> "version", val |-> <<version>>]
                /\ lookups = 0
           ELSE /\ pc \in {"SelectModuleAction", "SelectCommand", "Fail"}
                /\ pc = "Fail" =>
                       error = [kind |-> "UnknownCommand", name |-> "--version",
                                literal |-> ""]
                /\ result.op # "version"

C5_Witness ==
    /\ pc = "PrintVersion"
    /\ argv[1] = "--version"
    /\ result.val = <<"0.0.1">>

====
